---- MODULE Spec2Model ----
(***************************************************************************)
(* Library management REST service (src/server): three in-memory stores    *)
(* (book_db, user_db, loan_db) and the handlers that read and write them.  *)
(*                                                                         *)
(* Conventions of the translation                                          *)
(*   - a Python dict is a TLA+ function from its keys to its values; the   *)
(*     insertion order of loan_db, which the reports iterate in, is kept   *)
(*     in loan_keys;                                                       *)
(*   - Optional[T]: None is <<>>, a present value v is <<v>>;              *)
(*   - a "%Y-%m-%d" date string is the triple <<year, month, day>>, so     *)
(*     None (<<>>) and a date are comparable; strftime and strptime are    *)
(*     the conversions between a day number and such a triple;             *)
(*   - datetime.now() is the variable today (a day number: every use in    *)
(*     the source drops the time of day);                                  *)
(*   - every handler is one action (the handlers are `async def` without   *)
(*     an await, so each runs to completion on the event loop); response   *)
(*     is what the last handler returned, with the request it answered;    *)
(*   - pending holds the requests the server has read and whose handler    *)
(*     the event loop has not run yet.                                     *)
(***************************************************************************)
EXTENDS Integers, Sequences, FiniteSets, TLC

VARIABLES book_db, user_db, loan_db, loan_keys, today, response, pending

vars == <<book_db, user_db, loan_db, loan_keys, today, response, pending>>

\* ------------------------------------------------------------------ bounds

\* The loan store never grows beyond this many loans.
MaxLoans == 5

\* No book identifier beyond this one is assigned.
MaxBookId == 6

\* No user identifier beyond this one is assigned.
MaxUserId == 5

\* The clock advances at most this many times.
MaxTicks == 3

\* ------------------------------------------------------------ Python values

None == <<>>

Some(v) == <<v>>

\* Python truthiness of an Optional[str]: None and "" are falsy.
TruthyStr(opt) == opt # None /\ opt[1] # ""

\* Python truthiness of an Optional[int]: None and 0 are falsy.
TruthyInt(opt) == opt # None /\ opt[1] # 0

Max(S) == CHOOSE x \in S : \A y \in S : y <= x

\* dict.get(key, {}).get(field, "Unknown")
GetField(db, key, field) ==
    IF key \in DOMAIN db /\ field \in DOMAIN db[key] THEN db[key][field] ELSE "Unknown"

\* ------------------------------------------------------------------- dates
\* Day numbers count from 2025-01-01 (day 0); only their differences and
\* their order are used, as with Python's date objects.  No date of the model
\* lies before 2025: the stored loans start in November 2025.

IsLeap(y) == (y % 4 = 0 /\ y % 100 # 0) \/ y % 400 = 0

DaysInYear(y) == IF IsLeap(y) THEN 366 ELSE 365

DaysInMonth(y, m) ==
    IF m = 2 THEN (IF IsLeap(y) THEN 29 ELSE 28)
    ELSE IF m \in {4, 6, 9, 11} THEN 30 ELSE 31

RECURSIVE DaysBeforeYear(_)
DaysBeforeYear(y) == IF y <= 2025 THEN 0 ELSE DaysBeforeYear(y - 1) + DaysInYear(y - 1)

RECURSIVE DaysBeforeMonth(_, _)
DaysBeforeMonth(y, m) == IF m <= 1 THEN 0 ELSE DaysBeforeMonth(y, m - 1) + DaysInMonth(y, m - 1)

\* datetime.strptime(s, "%Y-%m-%d").date(), as a day number
strptime(s) == DaysBeforeYear(s[1]) + DaysBeforeMonth(s[1], s[2]) + (s[3] - 1)

RECURSIVE CivilFrom(_, _, _)
CivilFrom(y, m, n) ==
    IF m = 1 /\ n >= DaysInYear(y) THEN CivilFrom(y + 1, 1, n - DaysInYear(y))
    ELSE IF n >= DaysInMonth(y, m) THEN CivilFrom(y, m + 1, n - DaysInMonth(y, m))
    ELSE <<y, m, n + 1>>

\* d.strftime("%Y-%m-%d") of day number n
strftime(n) == CivilFrom(2025, 1, n)

\* ------------------------------------------------------------ initial data

InitBooks ==
    (1 :> [title |-> "1984", author |-> "George Orwell", isbn |-> "9780451524935",
           published_year |-> 1949, copies_available |-> 4]) @@
    (2 :> [title |-> "To Kill a Mockingbird", author |-> "Harper Lee", isbn |-> "9780060935467",
           published_year |-> 1960, copies_available |-> 2]) @@
    (3 :> [title |-> "The Great Gatsby", author |-> "F. Scott Fitzgerald", isbn |-> "9780743273565",
           published_year |-> 1925, copies_available |-> 5]) @@
    (4 :> [title |-> "Pride and Prejudice", author |-> "Jane Austen", isbn |-> "9780141439518",
           published_year |-> 1813, copies_available |-> 3]) @@
    (5 :> [title |-> "The Catcher in the Rye", author |-> "J.D. Salinger", isbn |-> "9780316769488",
           published_year |-> 1951, copies_available |-> 6])

InitUsers ==
    (1 :> [name |-> "John Doe", email |-> "john@example.com", role |-> "admin",
           username |-> Some("johndoe"), password |-> Some("admin123")]) @@
    (2 :> [name |-> "Jane Smith", email |-> "jane@example.com", role |-> "member"]) @@
    (3 :> [name |-> "Bob Wilson", email |-> "bob@example.com", role |-> "member"]) @@
    (4 :> [name |-> "Alice Brown", email |-> "alice@example.com", role |-> "member"])

InitLoans ==
    (1 :> [book_id |-> 1, user_id |-> 1, loan_date |-> <<2025, 11, 1>>,
           due_date |-> <<2025, 11, 15>>, return_date |-> <<2025, 11, 14>>,
           status |-> "returned"]) @@
    (2 :> [book_id |-> 2, user_id |-> 2, loan_date |-> <<2025, 11, 10>>,
           due_date |-> <<2025, 11, 24>>, return_date |-> None, status |-> "active"]) @@
    (3 :> [book_id |-> 3, user_id |-> 1, loan_date |-> <<2025, 11, 15>>,
           due_date |-> <<2025, 11, 29>>, return_date |-> None, status |-> "active"])

\* The day of the first request: the day loan 2 falls due.
StartDay == strptime(<<2025, 11, 24>>)

\* The clock moves in steps of this many days.
TickDays == {7}

LastDay == StartDay + MaxTicks * Max(TickDays)

NoResponse == [op |-> "none", status |-> 0]

Init ==
    /\ book_db = InitBooks
    /\ user_db = InitUsers
    /\ loan_db = InitLoans
    /\ loan_keys = <<1, 2, 3>>
    /\ today = StartDay
    /\ response = NoResponse
    /\ pending = {}

\* Time passes between two requests.
Tick(d) ==
    /\ today + d <= LastDay
    /\ today' = today + d
    /\ response' = NoResponse
    /\ UNCHANGED <<book_db, user_db, loan_db, loan_keys>>

\* ------------------------------------------------- api_book_management.py

\* Variant: the next identifier taken from the number of entries.
new_id_len(db) == Cardinality(DOMAIN db) + 1

\* Variant: the + 1 left out.
new_id_max(db) == IF DOMAIN db # {} THEN Max(DOMAIN db) ELSE 1

\* new_id = max(db.keys()) + 1 if db else 1, the same expression in add_book,
\* create_user and borrow_book
new_id(db) == IF DOMAIN db # {} THEN Max(DOMAIN db) + 1 ELSE 1

\* POST /books/
add_book(book) ==
    /\ new_id(book_db) <= MaxBookId
    /\ book_db' = (new_id(book_db) :> book) @@ book_db
    /\ response' = [op |-> "add_book", status |-> 200, book_id |-> new_id(book_db),
                    body |-> book]
    /\ UNCHANGED <<user_db, loan_db, loan_keys, today>>

\* GET /books/{book_id}
get_book(book_id) ==
    /\ response' = IF book_id \notin DOMAIN book_db
                   THEN [op |-> "get_book", status |-> 404, book_id |-> book_id]
                   ELSE [op |-> "get_book", status |-> 200, book_id |-> book_id,
                         body |-> book_db[book_id]]
    /\ UNCHANGED <<book_db, user_db, loan_db, loan_keys, today>>

\* PUT /books/{book_id}
update_book(book_id, book) ==
    /\ IF book_id \notin DOMAIN book_db
       THEN /\ response' = [op |-> "update_book", status |-> 404, book_id |-> book_id]
            /\ UNCHANGED book_db
       ELSE /\ book_db' = [book_db EXCEPT ![book_id] = book]
            /\ response' = [op |-> "update_book", status |-> 200, book_id |-> book_id,
                            body |-> book]
    /\ UNCHANGED <<user_db, loan_db, loan_keys, today>>

\* DELETE /books/{book_id}
delete_book(book_id) ==
    /\ IF book_id \notin DOMAIN book_db
       THEN /\ response' = [op |-> "delete_book", status |-> 404, book_id |-> book_id]
            /\ UNCHANGED book_db
       ELSE /\ book_db' = [k \in DOMAIN book_db \ {book_id} |-> book_db[k]]
            /\ response' = [op |-> "delete_book", status |-> 200, book_id |-> book_id]
    /\ UNCHANGED <<user_db, loan_db, loan_keys, today>>

\* Request bodies of POST /books/ and PUT /books/{book_id}.
BookInputs ==
    { [title |-> "Dune", author |-> "Frank Herbert", isbn |-> "9780441172719",
       published_year |-> 1965, copies_available |-> c] : c \in {0, 1} }

AllBookIds == 1 .. (MaxBookId + 1)

\* The identifiers reads and updates name: the first book, the last identifier
\* that can be assigned and one that never is.
BookReadIds == {1, MaxBookId, MaxBookId + 1}

NextBooks ==
    \/ \E book \in BookInputs : add_book(book) /\ UNCHANGED pending
    \/ \E book_id \in BookReadIds : get_book(book_id) /\ UNCHANGED pending
    \/ \E book_id \in BookReadIds, book \in BookInputs : update_book(book_id, book)
         /\ UNCHANGED pending
    \/ \E book_id \in AllBookIds : delete_book(book_id) /\ UNCHANGED pending

SpecBooks == Init /\ [][NextBooks]_vars

\* ------------------------------------------------- api_user_management.py

\* Variant: `and` for `or`.
MissingCredentials_and(user) == ~TruthyStr(user.username) /\ ~TruthyStr(user.password)

\* not user.username or not user.password
MissingCredentials(user) == ~TruthyStr(user.username) \/ ~TruthyStr(user.password)

\* user.role == "admin" and (not user.username or not user.password)
AdminRejected(user) == user.role = "admin" /\ MissingCredentials(user)

\* user_data = user.model_dump(), with username and password popped for a
\* member
user_data(user) ==
    IF user.role = "member"
    THEN [name |-> user.name, email |-> user.email, role |-> user.role]
    ELSE user

\* POST /users/
create_user(user) ==
    /\ IF AdminRejected(user)
       THEN /\ response' = [op |-> "create_user", status |-> 400, request |-> user]
            /\ UNCHANGED user_db
       ELSE /\ new_id(user_db) <= MaxUserId
            /\ user_db' = (new_id(user_db) :> user_data(user)) @@ user_db
            /\ response' = [op |-> "create_user", status |-> 200, request |-> user,
                            user_id |-> new_id(user_db), body |-> user_data(user)]
    /\ UNCHANGED <<book_db, loan_db, loan_keys, today>>

\* PUT /users/{user_id}
update_user(user_id, user) ==
    /\ IF user_id \notin DOMAIN user_db
       THEN /\ response' = [op |-> "update_user", status |-> 404, request |-> user,
                            user_id |-> user_id]
            /\ UNCHANGED user_db
       ELSE IF AdminRejected(user)
       THEN /\ response' = [op |-> "update_user", status |-> 400, request |-> user,
                            user_id |-> user_id]
            /\ UNCHANGED user_db
       ELSE /\ user_db' = [user_db EXCEPT ![user_id] = user_data(user)]
            /\ response' = [op |-> "update_user", status |-> 200, request |-> user,
                            user_id |-> user_id, body |-> user_data(user)]
    /\ UNCHANGED <<book_db, loan_db, loan_keys, today>>

\* DELETE /users/{user_id}
delete_user(user_id) ==
    /\ IF user_id \notin DOMAIN user_db
       THEN /\ response' = [op |-> "delete_user", status |-> 404, user_id |-> user_id]
            /\ UNCHANGED user_db
       ELSE /\ user_db' = [k \in DOMAIN user_db \ {user_id} |-> user_db[k]]
            /\ response' = [op |-> "delete_user", status |-> 200, user_id |-> user_id]
    /\ UNCHANGED <<book_db, loan_db, loan_keys, today>>

\* Request bodies of POST /users/ and PUT /users/{user_id}.
UserInput(r, u, p) ==
    [name |-> "Eve Adams", email |-> "eve@example.com", role |-> r,
     username |-> u, password |-> p]

UserInputs ==
    { UserInput("admin", Some("eve"), Some("pw")),
      UserInput("admin", Some("eve"), None),
      UserInput("admin", Some(""), Some("pw")),
      UserInput("admin", None, None),
      UserInput("member", Some("eve"), Some("pw")),
      UserInput("member", None, None),
      UserInput("librarian", None, None) }

\* The user identifiers requests name: the stored admin, a stored member, the
\* last identifier that can be assigned and one that never is.
UserReqIds == {1, 2, MaxUserId, MaxUserId + 1}

NextUsers ==
    \/ \E user \in UserInputs : create_user(user) /\ UNCHANGED pending
    \/ \E user_id \in UserReqIds, user \in UserInputs : update_user(user_id, user)
         /\ UNCHANGED pending
    \/ \E user_id \in UserReqIds : delete_user(user_id) /\ UNCHANGED pending

SpecUsers == Init /\ [][NextUsers]_vars

\* ------------------------------------------------- api_loan_management.py

\* d[key] = value on a dict whose keys are iterated in insertion order: a new
\* key goes last, an existing key keeps its place.
KeysAfterSet(keys, db, key) == IF key \in DOMAIN db THEN keys ELSE Append(keys, key)

\* {"loan_id": loan_id, **loan}
WithLoanId(loan_id) == [loan_id |-> loan_id] @@ loan_db[loan_id]

\* Variant: `<` for `<=`.
Unavailable_lt(book) == book.copies_available < 0

\* book_db[borrow.book_id]["copies_available"] <= 0
Unavailable(book) == book.copies_available <= 0

\* The loan record borrow_book stores.  The handler reads datetime.now() once
\* for loan_date and once for due_date; both reads fall on the day `now`.
new_loan(book_id, user_id, now) ==
    [book_id |-> book_id, user_id |-> user_id, loan_date |-> strftime(now),
     due_date |-> strftime(now + 14), return_date |-> None, status |-> "active"]

\* Variant: the counter left as it is.
after_borrow_same(book) == book

\* book_db[borrow.book_id]["copies_available"] -= 1
after_borrow(book) == [book EXCEPT !.copies_available = @ - 1]

\* POST /loans/borrow
borrow_book(book_id, user_id) ==
    /\ IF book_id \notin DOMAIN book_db
       THEN /\ response' = [op |-> "borrow_book", status |-> 404, book_id |-> book_id,
                            user_id |-> user_id]
            /\ UNCHANGED <<book_db, loan_db, loan_keys>>
       ELSE IF Unavailable(book_db[book_id])
       THEN /\ response' = [op |-> "borrow_book", status |-> 400, book_id |-> book_id,
                            user_id |-> user_id]
            /\ UNCHANGED <<book_db, loan_db, loan_keys>>
       ELSE /\ loan_db' = (new_id(loan_db) :> new_loan(book_id, user_id, today)) @@ loan_db
            /\ loan_keys' = KeysAfterSet(loan_keys, loan_db, new_id(loan_db))
            /\ book_db' = [book_db EXCEPT ![book_id] = after_borrow(@)]
            /\ response' = [op |-> "borrow_book", status |-> 200, book_id |-> book_id,
                            user_id |-> user_id, loan_id |-> new_id(loan_db),
                            body |-> new_loan(book_id, user_id, today)]
    /\ UNCHANGED <<user_db, today>>

\* loan["status"] == "returned"
AlreadyReturned(loan) == loan.status = "returned"

\* loan["return_date"] = now; loan["status"] = "returned"
returned(loan, now) == [loan EXCEPT !.return_date = strftime(now), !.status = "returned"]

\* Variant: the copy is not given back.
after_return_same(book) == book

\* Variant: `-=` for `+=`.
after_return_dec(book) == [book EXCEPT !.copies_available = @ - 1]

\* book_db[loan["book_id"]]["copies_available"] += 1
after_return(book) == [book EXCEPT !.copies_available = @ + 1]

\* POST /loans/return.  The loan is written before book_db[loan["book_id"]]
\* is looked up: with that book deleted the lookup raises KeyError, the
\* handler ends with 500 and the loan stays written.
return_book(loan_id) ==
    /\ IF loan_id \notin DOMAIN loan_db
       THEN /\ response' = [op |-> "return_book", status |-> 404, loan_id |-> loan_id]
            /\ UNCHANGED <<book_db, loan_db>>
       ELSE IF AlreadyReturned(loan_db[loan_id])
       THEN /\ response' = [op |-> "return_book", status |-> 400, loan_id |-> loan_id]
            /\ UNCHANGED <<book_db, loan_db>>
       ELSE /\ loan_db' = [loan_db EXCEPT ![loan_id] = returned(@, today)]
            /\ IF loan_db[loan_id].book_id \in DOMAIN book_db
               THEN /\ book_db' = [book_db EXCEPT ![loan_db[loan_id].book_id] = after_return(@)]
                    /\ response' = [op |-> "return_book", status |-> 200, loan_id |-> loan_id,
                                    body |-> returned(loan_db[loan_id], today)]
               ELSE /\ UNCHANGED book_db
                    /\ response' = [op |-> "return_book", status |-> 500, loan_id |-> loan_id]
    /\ UNCHANGED <<user_db, loan_keys, today>>

\* The loop body's two `continue` tests of track_borrowing.
TrackSkips(loan, user_id, book_id) ==
    \/ TruthyInt(user_id) /\ loan.user_id # user_id[1]
    \/ TruthyInt(book_id) /\ loan.book_id # book_id[1]

\* GET /loans/track
track_borrowing(user_id, book_id) ==
    /\ response' =
         LET Keep(k) == ~TrackSkips(loan_db[k], user_id, book_id)
             kept == SelectSeq(loan_keys, Keep)
         IN [op |-> "track_borrowing", status |-> 200, user_id |-> user_id,
             book_id |-> book_id,
             borrowings |-> [i \in 1 .. Len(kept) |-> WithLoanId(kept[i])],
             total |-> Len(kept)]
    /\ UNCHANGED <<book_db, user_db, loan_db, loan_keys, today>>

\* GET /loans/borrowed
list_borrowed_books ==
    /\ response' =
         LET Keep(k) == loan_db[k].status = "active"
             kept == SelectSeq(loan_keys, Keep)
         IN [op |-> "list_borrowed_books", status |-> 200,
             borrowed_books |->
               [i \in 1 .. Len(kept) |->
                  WithLoanId(kept[i]) @@
                  [book_title |-> GetField(book_db, loan_db[kept[i]].book_id, "title")]],
             total |-> Len(kept)]
    /\ UNCHANGED <<book_db, user_db, loan_db, loan_keys, today>>

\* GET /loans/availability/{book_id}
check_availability(book_id) ==
    /\ response' =
         IF book_id \notin DOMAIN book_db
         THEN [op |-> "check_availability", status |-> 404, book_id |-> book_id]
         ELSE [op |-> "check_availability", status |-> 200, book_id |-> book_id,
               title |-> book_db[book_id].title,
               copies_available |-> book_db[book_id].copies_available,
               is_available |-> book_db[book_id].copies_available > 0]
    /\ UNCHANGED <<book_db, user_db, loan_db, loan_keys, today>>

\* --------------------------------------------------- api_reports_admin.py

\* Variant: `<=` for `<`.
IsOverdue_le(loan, now) == loan.status = "active" /\ strptime(loan.due_date) <= now

\* loan["status"] == "active" and due_date < today
IsOverdue(loan, now) == loan.status = "active" /\ strptime(loan.due_date) < now

\* (today - due_date).days
days_overdue(loan, now) == now - strptime(loan.due_date)

\* {"loan_id": ..., **loan, "book_title": ..., "user_name": ...}
Enriched(loan_id) ==
    WithLoanId(loan_id) @@
    [book_title |-> GetField(book_db, loan_db[loan_id].book_id, "title"),
     user_name |-> GetField(user_db, loan_db[loan_id].user_id, "name")]

\* GET /admin/overdue
get_overdue_books ==
    /\ response' =
         LET Keep(k) == IsOverdue(loan_db[k], today)
             kept == SelectSeq(loan_keys, Keep)
         IN [op |-> "get_overdue_books", status |-> 200,
             overdue_books |->
               [i \in 1 .. Len(kept) |->
                  Enriched(kept[i]) @@
                  [days_overdue |-> days_overdue(loan_db[kept[i]], today)]],
             total |-> Len(kept)]
    /\ UNCHANGED <<book_db, user_db, loan_db, loan_keys, today>>

\* The keys of borrow_count in insertion order: each book_id where it first
\* occurs in loan_db.values().
RECURSIVE FirstOccurrences(_, _)
FirstOccurrences(keys, seen) ==
    IF keys = <<>> THEN <<>>
    ELSE LET b == loan_db[Head(keys)].book_id
         IN IF b \in seen THEN FirstOccurrences(Tail(keys), seen)
            ELSE <<b>> \o FirstOccurrences(Tail(keys), seen \cup {b})

\* borrow_count[book_id]
borrow_count(book_id) == Cardinality({k \in DOMAIN loan_db : loan_db[k].book_id = book_id})

\* Variant: the last of the keys with the greatest count.
RECURSIVE PyMax_last(_, _)
PyMax_last(keys, best) ==
    IF keys = <<>> THEN best
    ELSE PyMax_last(Tail(keys),
                    IF borrow_count(Head(keys)) >= borrow_count(best) THEN Head(keys) ELSE best)

\* max(keys, key=...): the first of the keys with the greatest count.
RECURSIVE PyMax(_, _)
PyMax(keys, best) ==
    IF keys = <<>> THEN best
    ELSE PyMax(Tail(keys),
               IF borrow_count(Head(keys)) > borrow_count(best) THEN Head(keys) ELSE best)

\* sorted(items, key=count, reverse=True): stable, so items of equal count
\* keep their order.
RECURSIVE InsertByCount(_, _)
InsertByCount(sorted, b) ==
    IF sorted = <<>> THEN <<b>>
    ELSE IF borrow_count(Head(sorted)) >= borrow_count(b)
         THEN <<Head(sorted)>> \o InsertByCount(Tail(sorted), b)
         ELSE <<b>> \o sorted

RECURSIVE SortedByCount(_, _)
SortedByCount(keys, acc) ==
    IF keys = <<>> THEN acc ELSE SortedByCount(Tail(keys), InsertByCount(acc, Head(keys)))

\* GET /admin/most-borrowed
get_most_borrowed_book ==
    /\ response' =
         LET keys == FirstOccurrences(loan_keys, {})
         IN IF keys = <<>>
            THEN [op |-> "get_most_borrowed_book", status |-> 200,
                  message |-> "No borrowing history found"]
            ELSE LET most_borrowed_id == PyMax(Tail(keys), Head(keys))
                     ranking == SortedByCount(keys, <<>>)
                 IN [op |-> "get_most_borrowed_book", status |-> 200,
                     book_id |-> most_borrowed_id,
                     title |-> GetField(book_db, most_borrowed_id, "title"),
                     author |-> GetField(book_db, most_borrowed_id, "author"),
                     times_borrowed |-> borrow_count(most_borrowed_id),
                     all_books_stats |->
                       [i \in 1 .. Len(ranking) |->
                          [book_id |-> ranking[i],
                           title |-> GetField(book_db, ranking[i], "title"),
                           times_borrowed |-> borrow_count(ranking[i])]]]
    /\ UNCHANGED <<book_db, user_db, loan_db, loan_keys, today>>

\* The loop body's three `continue` tests of get_borrowing_history.
HistorySkips(loan, user_id, book_id, status) ==
    \/ TruthyInt(user_id) /\ loan.user_id # user_id[1]
    \/ TruthyInt(book_id) /\ loan.book_id # book_id[1]
    \/ TruthyStr(status) /\ loan.status # status[1]

\* GET /admin/history
get_borrowing_history(user_id, book_id, status) ==
    /\ response' =
         LET Keep(k) == ~HistorySkips(loan_db[k], user_id, book_id, status)
             kept == SelectSeq(loan_keys, Keep)
         IN [op |-> "get_borrowing_history", status |-> 200,
             user_id |-> user_id, book_id |-> book_id, status_filter |-> status,
             history |-> [i \in 1 .. Len(kept) |-> Enriched(kept[i])],
             total |-> Len(kept)]
    /\ UNCHANGED <<book_db, user_db, loan_db, loan_keys, today>>

\* sum(1 for loan in loan_db.values() if loan["status"] == "active")
active_loans == Cardinality({k \in DOMAIN loan_db : loan_db[k].status = "active"})

\* Variant: `<=` for `<`.
overdue_count_le ==
    Cardinality({k \in DOMAIN loan_db :
                   /\ loan_db[k].status = "active"
                   /\ strptime(loan_db[k].due_date) <= today})

\* The dashboard's own loop over loan_db.values(): status == "active" and
\* due_date < today, counted.
overdue_count ==
    Cardinality({k \in DOMAIN loan_db :
                   /\ loan_db[k].status = "active"
                   /\ strptime(loan_db[k].due_date) < today})

\* GET /admin/dashboard
get_dashboard_stats ==
    /\ response' =
         [op |-> "get_dashboard_stats", status |-> 200,
          total_books |-> Cardinality(DOMAIN book_db),
          total_users |-> Cardinality(DOMAIN user_db),
          total_loans |-> Cardinality(DOMAIN loan_db),
          active_loans |-> active_loans,
          overdue_loans |-> overdue_count,
          returned_loans |-> Cardinality(DOMAIN loan_db) - active_loans]
    /\ UNCHANGED <<book_db, user_db, loan_db, loan_keys, today>>

\* ---------------------------------------------------------- specifications

\* The book identifiers requests name: the book of the active loan 2, the
\* last identifier that can be assigned and one that never is.
BookReqIds == {2, MaxBookId, MaxBookId + 1}

\* The loan identifiers requests name: a loan returned from the start, an
\* active one, the first one a borrow creates and one that never exists.
LoanReqIds == {1, 2, 4, MaxLoans + 1}

\* A borrow that succeeds finds fewer than n loans in the store: the bound on
\* the growth of loan_db.
LoansBelow(n, book_id) ==
    (book_id \in DOMAIN book_db /\ ~Unavailable(book_db[book_id])) => Len(loan_keys) < n

\* Borrow and return with the book operations that change what they read,
\* and the clock moving once between two requests.
NextLoans ==
    \/ Tick(LastDay - StartDay) /\ UNCHANGED pending
    \/ \E book \in BookInputs : add_book(book) /\ UNCHANGED pending
    \/ \E book \in BookInputs : update_book(2, book) /\ UNCHANGED pending
    \/ \E book_id \in BookReqIds : delete_book(book_id) /\ UNCHANGED pending
    \/ \E book_id \in BookReqIds : LoansBelow(MaxLoans, book_id) /\ borrow_book(book_id, 2)
         /\ UNCHANGED pending
    \/ \E loan_id \in LoanReqIds : return_book(loan_id) /\ UNCHANGED pending

SpecLoans == Init /\ [][NextLoans]_vars

\* The user identifiers borrow requests carry: user_id is not checked against
\* user_db, so any integer is accepted.
BorrowUserIds == {0, 2}

\* The filters of GET /loans/track and GET /admin/history.
UserFilters == {None, Some(0), Some(2)}

BookFilters == {None, Some(0), Some(4)}

StatusFilters == {None, Some("active")}

\* The overdue report over loans borrowed and returned on different days.
NextOverdue ==
    \/ \E d \in TickDays : Tick(d) /\ UNCHANGED pending
    \/ LoansBelow(MaxLoans, 2) /\ borrow_book(2, 2) /\ UNCHANGED pending
    \/ \E loan_id \in LoanReqIds : return_book(loan_id) /\ UNCHANGED pending
    \/ get_overdue_books /\ UNCHANGED pending

SpecOverdue == Init /\ [][NextOverdue]_vars

\* The dashboard beside the overdue report, over the same loans and days.
NextDashboard ==
    \/ NextOverdue
    \/ get_dashboard_stats /\ UNCHANGED pending

SpecDashboard == Init /\ [][NextDashboard]_vars

\* The loan listings over loans of several books and users, user 0 among
\* them.
NextHistory ==
    \/ \E book_id \in {4, 5}, user_id \in BorrowUserIds :
         LoansBelow(MaxLoans, book_id) /\ borrow_book(book_id, user_id) /\ UNCHANGED pending
    \/ return_book(4) /\ UNCHANGED pending
    \/ \E user_id \in UserFilters, book_id \in BookFilters : track_borrowing(user_id, book_id)
         /\ UNCHANGED pending
    \/ \E user_id \in UserFilters, book_id \in BookFilters, status \in StatusFilters :
         get_borrowing_history(user_id, book_id, status) /\ UNCHANGED pending

SpecHistory == Init /\ [][NextHistory]_vars

\* The borrowing statistics over loans of books borrowed in any order, two of
\* them books that no loan names at the start.
NextMostBorrowed ==
    \/ \E book_id \in {3, 4, 5} : LoansBelow(MaxLoans + 2, book_id) /\ borrow_book(book_id, 2)
         /\ UNCHANGED pending
    \/ return_book(4) /\ UNCHANGED pending
    \/ get_most_borrowed_book /\ UNCHANGED pending

SpecMostBorrowed == Init /\ [][NextMostBorrowed]_vars

\* Every handler of the service, one request at a time.
Next ==
    \/ Tick(LastDay - StartDay) /\ UNCHANGED pending
    \/ add_book(CHOOSE book \in BookInputs : book.copies_available = 1) /\ UNCHANGED pending
    \/ get_book(2) /\ UNCHANGED pending
    \/ update_book(2, CHOOSE book \in BookInputs : book.copies_available = 0) /\ UNCHANGED pending
    \/ delete_book(2) /\ UNCHANGED pending
    \/ \E user \in {UserInput("admin", Some("eve"), Some("pw")), UserInput("admin", None, None)} :
         create_user(user) /\ UNCHANGED pending
    \/ update_user(MaxUserId, UserInput("member", Some("eve"), Some("pw"))) /\ UNCHANGED pending
    \/ delete_user(MaxUserId) /\ UNCHANGED pending
    \/ \E book_id \in {2, MaxBookId} : LoansBelow(MaxLoans, book_id) /\ borrow_book(book_id, 2)
         /\ UNCHANGED pending
    \/ \E loan_id \in {2, 4} : return_book(loan_id) /\ UNCHANGED pending
    \/ track_borrowing(Some(2), None) /\ UNCHANGED pending
    \/ list_borrowed_books /\ UNCHANGED pending
    \/ check_availability(2) /\ UNCHANGED pending
    \/ get_overdue_books /\ UNCHANGED pending
    \/ get_most_borrowed_book /\ UNCHANGED pending
    \/ get_borrowing_history(None, Some(2), Some("active")) /\ UNCHANGED pending
    \/ get_dashboard_stats /\ UNCHANGED pending

Spec == Init /\ [][Next]_vars

\* Two borrow requests for one book by different users, in flight at once.
SimultaneousBorrows(book_id) ==
    {[book_id |-> book_id, user_id |-> user_id] : user_id \in BorrowUserIds}

\* The server reads both requests before the event loop runs either handler.
\* Both can still store a loan within the bound on loan_db.
receive_borrows(book_id) ==
    /\ pending = {}
    /\ Len(loan_keys) + Cardinality(SimultaneousBorrows(book_id)) <= MaxLoans
    /\ pending' = SimultaneousBorrows(book_id)
    /\ UNCHANGED <<book_db, user_db, loan_db, loan_keys, today, response>>

\* The event loop runs the handler of one pending request, whichever comes
\* first, from its first statement to its return: `async def borrow_book` has
\* no await, the only place where the loop could switch to another handler.
run_pending ==
    \E req \in pending :
        /\ borrow_book(req.book_id, req.user_id)
        /\ pending' = pending \ {req}

\* Simultaneous borrows of a book whose counter the other handlers move, and
\* of a book that does not exist; the other handlers run between the two
\* borrows as well.
NextSimultaneous ==
    \/ \E book_id \in {2, MaxBookId + 1} : receive_borrows(book_id)
    \/ run_pending
    \/ \E book \in BookInputs : update_book(2, book) /\ UNCHANGED pending
    \/ \E loan_id \in LoanReqIds : return_book(loan_id) /\ UNCHANGED pending

SpecSimultaneous == Init /\ [][NextSimultaneous]_vars

\* ------------------------------------------------------------------ claims

\* The step is the handler `op` answering a request.
Answers(op) == response'.op = op

\* C1: every borrow of a stored book with copies_available > 0 succeeds,
\* takes exactly one copy off that book, and adds exactly one loan: active,
\* return_date None, the request's book_id and user_id, its identifier
\* max(existing loan identifiers) + 1 (1 for an empty loan store); the loans
\* already stored and the other books stay as they were.
C1_BorrowSucceeds ==
    [][(/\ Answers("borrow_book")
        /\ response'.book_id \in DOMAIN book_db
        /\ book_db[response'.book_id].copies_available > 0)
       => LET b == response'.book_id
              id == IF DOMAIN loan_db = {} THEN 1 ELSE Max(DOMAIN loan_db) + 1
          IN /\ response'.status = 200
             /\ response'.loan_id = id
             /\ DOMAIN book_db' = DOMAIN book_db
             /\ book_db'[b].copies_available = book_db[b].copies_available - 1
             /\ \A k \in DOMAIN book_db \ {b} : book_db'[k] = book_db[k]
             /\ id \notin DOMAIN loan_db
             /\ DOMAIN loan_db' = DOMAIN loan_db \cup {id}
             /\ \A k \in DOMAIN loan_db : loan_db'[k] = loan_db[k]
             /\ loan_db'[id].status = "active"
             /\ loan_db'[id].return_date = None
             /\ loan_db'[id].book_id = b
             /\ loan_db'[id].user_id = response'.user_id]_vars

\* C1's case: a borrow has succeeded and left its book with one copy less
\* than the two it started with.
C1_Witness ==
    /\ response.op = "borrow_book"
    /\ response.status = 200
    /\ response.book_id = 2
    /\ book_db[2].copies_available = InitBooks[2].copies_available - 1
    /\ loan_db[response.loan_id].status = "active"

\* C2: a borrow of an absent book answers 404, a borrow of a book with
\* copies_available <= 0 answers 400, and either leaves the loan store and
\* the book store as they were.
C2_FailedBorrowChangesNothing ==
    [][(/\ Answers("borrow_book")
        /\ \/ response'.book_id \notin DOMAIN book_db
           \/ book_db[response'.book_id].copies_available <= 0)
       => /\ response'.status = IF response'.book_id \notin DOMAIN book_db THEN 404 ELSE 400
          /\ loan_db' = loan_db
          /\ loan_keys' = loan_keys
          /\ book_db' = book_db]_vars

\* C2's case: a borrow of a stored book with no copy left was refused.
C2_Witness ==
    /\ response.op = "borrow_book"
    /\ response.status = 400
    /\ response.book_id \in DOMAIN book_db
    /\ book_db[response.book_id].copies_available = 0

\* C3: a return of a stored loan succeeds when the loan is active, and fails
\* with 400 when it is already returned, then leaving the book store and the
\* loan (its return_date and status) as they were.
C3_ReturnTwice ==
    [][(Answers("return_book") /\ response'.loan_id \in DOMAIN loan_db)
       => IF loan_db[response'.loan_id].status = "active"
          THEN response'.status = 200
          ELSE /\ response'.status = 400
               /\ book_db' = book_db
               /\ loan_db' = loan_db]_vars

\* The part of C3 the code keeps: a return of a loan that is already returned
\* answers 400 and changes neither store.
C3_SecondReturnRejected ==
    [][(/\ Answers("return_book")
        /\ response'.loan_id \in DOMAIN loan_db
        /\ loan_db[response'.loan_id].status = "returned")
       => /\ response'.status = 400
          /\ book_db' = book_db
          /\ loan_db' = loan_db]_vars

\* C4: a loan enters the store only through borrow_book and as active; its
\* status is active or returned; a returned loan stays returned; no step
\* removes a loan or changes its identifier, book_id or user_id.
C4_LoanLifecycle ==
    [][/\ \A k \in DOMAIN loan_db : loan_db[k].status \in {"active", "returned"}
       /\ \A k \in DOMAIN loan_db' : loan_db'[k].status \in {"active", "returned"}
       /\ DOMAIN loan_db \subseteq DOMAIN loan_db'
       /\ \A k \in DOMAIN loan_db :
            /\ loan_db'[k].book_id = loan_db[k].book_id
            /\ loan_db'[k].user_id = loan_db[k].user_id
            /\ loan_db[k].status = "returned" => loan_db'[k].status = "returned"
       /\ \A k \in DOMAIN loan_db' \ DOMAIN loan_db :
            /\ Answers("borrow_book")
            /\ loan_db'[k].status = "active"]_vars

\* C4's case: a loan that a borrow created has been returned, and a later
\* request of another kind has been served.
C4_Witness ==
    /\ 4 \in DOMAIN loan_db
    /\ loan_db[4].status = "returned"
    /\ response.op = "delete_user"
    /\ response.status = 200

\* C10: a return that marks a loan returned also adds one to the
\* copies_available of the book the loan names, and a borrow that stores a
\* loan also takes one off: no step does the first write without the second.
C10_SecondWriteHappens ==
    [][/\ (/\ Answers("return_book")
           /\ response'.loan_id \in DOMAIN loan_db
           /\ loan_db[response'.loan_id].status = "active"
           /\ loan_db'[response'.loan_id].status = "returned")
          => LET b == loan_db[response'.loan_id].book_id
             IN /\ b \in DOMAIN book_db
                /\ b \in DOMAIN book_db'
                /\ book_db'[b].copies_available = book_db[b].copies_available + 1
       /\ (Answers("borrow_book") /\ DOMAIN loan_db' # DOMAIN loan_db)
          => /\ response'.book_id \in DOMAIN book_db'
             /\ book_db'[response'.book_id].copies_available
                  = book_db[response'.book_id].copies_available - 1]_vars

\* A stored user record carries a non-empty username and password.
HasCredentials(u) ==
    /\ {"username", "password"} \subseteq DOMAIN u
    /\ u.username # None /\ u.username[1] # ""
    /\ u.password # None /\ u.password[1] # ""

\* Every stored admin carries both credentials, every stored member carries
\* neither key.
UserStoreInv(db) ==
    \A id \in DOMAIN db :
        /\ db[id].role = "admin" => HasCredentials(db[id])
        /\ db[id].role = "member" => DOMAIN db[id] \cap {"username", "password"} = {}

\* The request of the step names role admin with a username or a password
\* that is None or empty.
AdminWithoutCredentials(req) ==
    /\ req.role = "admin"
    /\ \/ req.username = None \/ req.username = Some("")
       \/ req.password = None \/ req.password = Some("")

\* C5 as stated: the user store keeps every admin with both credentials and
\* every member with neither, and every create or update naming role admin
\* without a username or a password answers 400 and leaves the store as it
\* was.
C5_AdminCredentials ==
    [][/\ UserStoreInv(user_db)
       /\ UserStoreInv(user_db')
       /\ (/\ Answers("create_user") \/ Answers("update_user")
           /\ AdminWithoutCredentials(response'.request))
          => /\ response'.status = 400
             /\ user_db' = user_db]_vars

\* C5 as the code has it: the same, where update_user looks the identifier
\* up first, so that an update of an absent identifier answers 404 whatever
\* its body; the store is unchanged in both cases.
C5_AdminCredentialsAmended ==
    [][/\ UserStoreInv(user_db)
       /\ UserStoreInv(user_db')
       /\ (/\ Answers("create_user") \/ Answers("update_user")
           /\ AdminWithoutCredentials(response'.request))
          => /\ response'.status =
                  IF Answers("update_user") /\ response'.user_id \notin DOMAIN user_db
                  THEN 404 ELSE 400
             /\ user_db' = user_db]_vars

\* C5's case: an update naming role admin with an empty username was refused
\* for a stored member, who is still stored without credentials.
C5_Witness ==
    /\ response.op = "update_user"
    /\ response.status = 400
    /\ response.request.username = Some("")
    /\ response.user_id \in DOMAIN user_db
    /\ user_db[response.user_id].role = "member"
    /\ \E id \in DOMAIN user_db : user_db[id].name = "Eve Adams" /\ user_db[id].role = "admin"

\* C8: add_book stores the record under max(existing identifiers) + 1, or 1
\* in an empty store, an identifier that was not a key before, and leaves
\* the stored records as they were; a get_book right after an add_book or an
\* update_book of an identifier returns the record that request wrote.
C8_BookIdentifiers ==
    [][/\ Answers("add_book")
          => LET id == response'.book_id
             IN /\ id = IF DOMAIN book_db = {} THEN 1 ELSE Max(DOMAIN book_db) + 1
                /\ id \notin DOMAIN book_db
                /\ DOMAIN book_db' = DOMAIN book_db \cup {id}
                /\ \A k \in DOMAIN book_db : book_db'[k] = book_db[k]
                /\ book_db'[id] = response'.body
       /\ (/\ response.op \in {"add_book", "update_book"}
           /\ response.status = 200
           /\ Answers("get_book")
           /\ response'.book_id = response.book_id)
          => /\ response'.status = 200
             /\ response'.body = response.body]_vars

\* C8's case: a book was added to the emptied store, under identifier 1.
C8_Witness ==
    /\ response.op = "add_book"
    /\ response.book_id = 1
    /\ DOMAIN book_db = {1}
    /\ book_db[1] = response.body

\* The date a is before the date b, on the <<year, month, day>> triples.
DateBefore(a, b) ==
    \/ a[1] < b[1]
    \/ a[1] = b[1] /\ a[2] < b[2]
    \/ a[1] = b[1] /\ a[2] = b[2] /\ a[3] < b[3]

\* C6: get_overdue_books reports a loan if and only if it is active and its
\* due date is strictly before the current date (a loan due today is not
\* reported), once each, and days_overdue is the number of days from the due
\* date to the current date.
C6_Overdue ==
    [][Answers("get_overdue_books")
       => LET rows == response'.overdue_books
          IN /\ {rows[i].loan_id : i \in DOMAIN rows}
                  = {k \in DOMAIN loan_db :
                       /\ loan_db[k].status = "active"
                       /\ DateBefore(loan_db[k].due_date, strftime(today))}
             /\ response'.total = Cardinality({rows[i].loan_id : i \in DOMAIN rows})
             /\ \A i \in DOMAIN rows :
                  /\ rows[i].days_overdue > 0
                  /\ strftime(today - rows[i].days_overdue) = loan_db[rows[i].loan_id].due_date
                  /\ rows[i].days_overdue = today - strptime(rows[i].due_date)]_vars

\* C6's case: the report lists a loan borrowed in November and due in
\* December, seven days late, while another active loan falls due on the day
\* of the report and is not listed.
C6_Witness ==
    /\ response.op = "get_overdue_books"
    /\ \E i \in DOMAIN response.overdue_books :
         /\ response.overdue_books[i].loan_id = 4
         /\ response.overdue_books[i].days_overdue = 7
         /\ response.overdue_books[i].loan_date[2] = 11
         /\ response.overdue_books[i].due_date[2] = 12
    /\ \E k \in DOMAIN loan_db :
         /\ loan_db[k].status = "active"
         /\ loan_db[k].due_date = strftime(today)
         /\ \A i \in DOMAIN response.overdue_books : response.overdue_books[i].loan_id # k

\* The loans a listing with the filters user_id and book_id (and status) is
\* to return: those that equal every filter that is supplied.
Matching(user_id, book_id, status) ==
    {k \in DOMAIN loan_db :
       /\ user_id # None => loan_db[k].user_id = user_id[1]
       /\ book_id # None => loan_db[k].book_id = book_id[1]
       /\ status # None => loan_db[k].status = status[1]}

\* C7: track_borrowing and get_borrowing_history return exactly the loans
\* that equal every supplied filter, a filter of 0 included; an omitted
\* filter restricts nothing.
C7_Filters ==
    [][/\ Answers("track_borrowing")
          => {response'.borrowings[i].loan_id : i \in DOMAIN response'.borrowings}
               = Matching(response'.user_id, response'.book_id, None)
       /\ Answers("get_borrowing_history")
          => {response'.history[i].loan_id : i \in DOMAIN response'.history}
               = Matching(response'.user_id, response'.book_id, response'.status_filter)]_vars

\* The part of C7 the code keeps: the same for filters that are omitted or
\* are not 0.
C7_NonZeroFilters ==
    [][/\ (/\ Answers("track_borrowing")
           /\ Some(0) \notin {response'.user_id, response'.book_id})
          => {response'.borrowings[i].loan_id : i \in DOMAIN response'.borrowings}
               = Matching(response'.user_id, response'.book_id, None)
       /\ (/\ Answers("get_borrowing_history")
           /\ Some(0) \notin {response'.user_id, response'.book_id})
          => {response'.history[i].loan_id : i \in DOMAIN response'.history}
               = Matching(response'.user_id, response'.book_id, response'.status_filter)]_vars

\* The place in loan-store order of the first loan that names book b.
FirstLoanOf(b) ==
    CHOOSE i \in DOMAIN loan_keys :
        /\ loan_db[loan_keys[i]].book_id = b
        /\ \A j \in 1 .. (i - 1) : loan_db[loan_keys[j]].book_id # b

\* The number of loans that name book b.
TimesBorrowed(b) == Cardinality({k \in DOMAIN loan_db : loan_db[k].book_id = b})

\* C9: over a non-empty loan store get_most_borrowed_book reports a book
\* whose number of loans is the greatest of any book, times_borrowed is that
\* number, of the books with that number it is the one whose first loan comes
\* first in the loan store, and all_books_stats lists every borrowed book
\* once, with its number of loans, in non-increasing order of that number;
\* over an empty loan store it reports "No borrowing history found".
C9_MostBorrowed ==
    [][Answers("get_most_borrowed_book")
       => LET borrowed == {loan_db[k].book_id : k \in DOMAIN loan_db}
          IN IF DOMAIN loan_db = {}
             THEN response'.message = "No borrowing history found"
             ELSE LET stats == response'.all_books_stats
                  IN /\ response'.book_id \in borrowed
                     /\ response'.times_borrowed = TimesBorrowed(response'.book_id)
                     /\ \A b \in borrowed :
                          /\ TimesBorrowed(b) <= response'.times_borrowed
                          /\ (TimesBorrowed(b) = response'.times_borrowed /\ b # response'.book_id)
                             => FirstLoanOf(response'.book_id) < FirstLoanOf(b)
                     /\ {stats[i].book_id : i \in DOMAIN stats} = borrowed
                     /\ Len(stats) = Cardinality(borrowed)
                     /\ \A i \in DOMAIN stats :
                          stats[i].times_borrowed = TimesBorrowed(stats[i].book_id)
                     /\ \A i \in DOMAIN stats : \A j \in DOMAIN stats :
                          i < j => stats[i].times_borrowed >= stats[j].times_borrowed]_vars

\* C9's case: two books are tied for the greatest number of loans and the
\* report names the one borrowed first, which has the greater identifier.
C9_Witness ==
    /\ response.op = "get_most_borrowed_book"
    /\ response.book_id = 5
    /\ response.times_borrowed = 2
    /\ TimesBorrowed(4) = 2
    /\ FirstLoanOf(5) < FirstLoanOf(4)

\* The step runs the handler of the pending borrow request req.
RunsPending(req) == req \in pending /\ pending' = pending \ {req} /\ Answers("borrow_book")

\* One of two simultaneous borrows has just taken the last copy of the book
\* req names, and req is the other one, still pending.
LastCopyTaken(req) ==
    /\ pending = {req}
    /\ response.op = "borrow_book"
    /\ response.status = 200
    /\ response.book_id = req.book_id
    /\ response.user_id # req.user_id
    /\ book_db[req.book_id].copies_available = 0

\* C11 as claimed: of two simultaneous borrows of a book with one copy, the
\* one whose handler runs second passes the guard as well, stores an active
\* loan and leaves the counter below 0.
C11_BothBorrowsSucceed ==
    [][\A req \in pending :
         (LastCopyTaken(req) /\ RunsPending(req))
         => /\ response'.status = 200
            /\ response'.loan_id \in DOMAIN loan_db' \ DOMAIN loan_db
            /\ book_db'[req.book_id].copies_available < 0]_vars

\* C11 as the code has it: the event loop runs the two handlers one after the
\* other, in either order.  With one copy left the first answers 200 and
\* brings the counter to 0; the second reads that 0, answers 400 and changes
\* neither store.
C11_SimultaneousBorrowsSerialized ==
    [][\A req \in pending :
         /\ (/\ pending = SimultaneousBorrows(req.book_id)
             /\ req.book_id \in DOMAIN book_db
             /\ book_db[req.book_id].copies_available = 1
             /\ RunsPending(req))
            => /\ response'.status = 200
               /\ response'.user_id = req.user_id
               /\ book_db'[req.book_id].copies_available = 0
               /\ \E other \in pending' : LastCopyTaken(other)'
         /\ (LastCopyTaken(req) /\ RunsPending(req))
            => /\ response'.status = 400
               /\ response'.user_id = req.user_id
               /\ book_db' = book_db
               /\ loan_db' = loan_db
               /\ loan_keys' = loan_keys]_vars

\* Both handlers have run: the request answered last got 400, the loan stored
\* last is the other user's, and the counter is 0.
C11_Witness ==
    /\ pending = {}
    /\ response.op = "borrow_book"
    /\ response.status = 400
    /\ response.book_id \in DOMAIN book_db
    /\ book_db[response.book_id].copies_available = 0
    /\ LET last == loan_db[Max(DOMAIN loan_db)]
       IN /\ last.book_id = response.book_id
          /\ last.status = "active"
          /\ last.user_id \in BorrowUserIds \ {response.user_id}

\* The loans of loan_db, in the order the handlers iterate over them, that
\* have the given status.
WithStatus(status) ==
    LET Keep(k) == loan_db[k].status = status IN SelectSeq(loan_keys, Keep)

\* The loans GET /admin/overdue lists in this state on this day.
OverdueNow ==
    LET Keep(k) == IsOverdue(loan_db[k], today) IN SelectSeq(loan_keys, Keep)

\* C12: the dashboard answers with total_loans the number of loans,
\* active_loans the number of active ones, returned_loans = total_loans -
\* active_loans, which is the number of returned ones, and overdue_loans the
\* number of loans the overdue report lists in the same state on the same
\* day (the report's own total, when the report was the request before);
\* hence overdue_loans <= active_loans <= total_loans.
C12_Dashboard ==
    [][Answers("get_dashboard_stats")
       => /\ response'.status = 200
          /\ response'.total_loans = Len(loan_keys)
          /\ response'.active_loans = Len(WithStatus("active"))
          /\ response'.returned_loans = response'.total_loans - response'.active_loans
          /\ response'.returned_loans = Len(WithStatus("returned"))
          /\ response'.overdue_loans = Len(OverdueNow)
          /\ response.op = "get_overdue_books" => response'.overdue_loans = response.total
          /\ response'.overdue_loans <= response'.active_loans
          /\ response'.active_loans <= response'.total_loans]_vars

\* The dashboard has answered over loans of every kind: returned ones,
\* overdue ones, and an active one due today, which is not overdue.
C12_Witness ==
    /\ response.op = "get_dashboard_stats"
    /\ response.returned_loans >= 2
    /\ response.overdue_loans >= 1
    /\ response.overdue_loans < response.active_loans
    /\ \E k \in DOMAIN loan_db :
         loan_db[k].status = "active" /\ strptime(loan_db[k].due_date) = today

\* The active loans that name the book.
ActiveOn(book_id) ==
    {k \in DOMAIN loan_db : loan_db[k].book_id = book_id /\ loan_db[k].status = "active"}

\* The copies of a stored book on the shelf and out on loan.
Stock(book_id) == book_db[book_id].copies_available + Cardinality(ActiveOn(book_id))

\* C13: a borrow or a return, whatever it answers, leaves copies_available +
\* (number of active loans naming the book) of every stored book as it was,
\* so the sum keeps its value over any sequence of borrows and returns; and
\* the return of the loan a successful borrow has just created gives back
\* the one copy that borrow took.
C13_StockConservation ==
    [][/\ (Answers("borrow_book") \/ Answers("return_book"))
          => /\ DOMAIN book_db' = DOMAIN book_db
             /\ \A book_id \in DOMAIN book_db : Stock(book_id)' = Stock(book_id)
       /\ (Answers("borrow_book") /\ response'.status = 200)
          => book_db'[response'.book_id].copies_available
               = book_db[response'.book_id].copies_available - 1
       /\ (/\ response.op = "borrow_book"
           /\ response.status = 200
           /\ Answers("return_book")
           /\ response'.loan_id = response.loan_id)
          => /\ response'.status = 200
             /\ book_db'[response.book_id].copies_available
                  = book_db[response.book_id].copies_available + 1
             /\ \A book_id \in {response.book_id} :
                  ActiveOn(book_id)' = ActiveOn(book_id) \ {response.loan_id}]_vars

\* Loan 4, borrowed on book 2, has been returned: the book has the copies and
\* the one active loan it started with.
C13_Witness ==
    /\ response.op = "return_book"
    /\ response.status = 200
    /\ response.loan_id = 4
    /\ loan_db[4].book_id = 2
    /\ 2 \in DOMAIN book_db
    /\ book_db[2] = InitBooks[2]
    /\ ActiveOn(2) = {2}

\* No stored book has a negative counter.
NonNegative == \A book_id \in DOMAIN book_db : book_db[book_id].copies_available >= 0

\* C14: with every create and update supplying copies_available >= 0, no
\* stored book ever has a negative counter.  A borrow of a book whose counter
\* is 0 or less leaves the counter alone; a counter that goes down was taken
\* down by one, from above 0, by a successful borrow, or was set to the value
\* an update supplied.
C14_CopiesNonNegative ==
    [][/\ NonNegative
       /\ NonNegative'
       /\ (/\ Answers("borrow_book")
           /\ response'.book_id \in DOMAIN book_db
           /\ book_db[response'.book_id].copies_available <= 0)
          => book_db' = book_db
       /\ \A book_id \in DOMAIN book_db \cap DOMAIN book_db' :
            book_db'[book_id].copies_available < book_db[book_id].copies_available
            => \/ /\ Answers("borrow_book")
                  /\ response'.status = 200
                  /\ response'.book_id = book_id
                  /\ book_db[book_id].copies_available > 0
                  /\ book_db'[book_id].copies_available
                       = book_db[book_id].copies_available - 1
               \/ /\ Answers("update_book")
                  /\ response'.status = 200
                  /\ response'.book_id = book_id
                  /\ book_db'[book_id].copies_available
                       \in {book.copies_available : book \in BookInputs}]_vars

\* Borrows alone have taken book 2 down to its last copy and one more borrow
\* has been refused: the counter is 0.
C14_Witness ==
    /\ response.op = "borrow_book"
    /\ response.status = 400
    /\ response.book_id = 2
    /\ book_db[2] = [InitBooks[2] EXCEPT !.copies_available = 0]
    /\ Cardinality(ActiveOn(2)) = 1 + InitBooks[2].copies_available

====
